---- MODULE Spec2Model ----
(***************************************************************************)
(* The proposal inverter of parameterized/proposal_inverter.py: one        *)
(* ProposalInverter deployed by one Owner, a pool of Broker wallets, and   *)
(* the calls a driver can make on them.  Funds are Python numbers divided  *)
(* with true division; they are modelled as exact rationals <<num, den>>.  *)
(***************************************************************************)
EXTENDS Integers, FiniteSets, Sequences, TLC

VARIABLES deployed, params, funds, current_epoch, cancel_epoch,
          broker_agreements, committed_brokers, wallet, last,
          failed_steps, calls

vars == <<deployed, params, funds, current_epoch, cancel_epoch,
          broker_agreements, committed_brokers, wallet, last,
          failed_steps, calls>>

(* ------------------------------ bounds --------------------------------- *)

\* number of Broker wallets in the pool
NumBrokers == 2

\* number of calls the driver makes, deploy included
MaxCalls == 5

\* largest n_epochs passed to iter_epoch
MaxNEpochs == 2

\* funds each Broker wallet is given before it meets the inverter
BrokerFunds == 10

\* funds the Owner wallet is given before deploy
OwnerFunds == 20

\* funds the paying wallet is given
PayerFunds == 5

\* the epoch past which the driver stops calling iter_epoch
MaxEpoch == 30


(* --------------------------- exact rationals --------------------------- *)

Abs(n) == IF n < 0 THEN -n ELSE n

RECURSIVE GCD(_, _)
GCD(a, b) == IF b = 0 THEN a ELSE GCD(b, a % b)

Norm(n, d) == LET g == GCD(Abs(n), d) IN <<n \div g, d \div g>>

R(n) == <<n, 1>>

RAdd(x, y) == Norm(x[1] * y[2] + y[1] * x[2], x[2] * y[2])

RNeg(x) == <<-x[1], x[2]>>

RSub(x, y) == RAdd(x, RNeg(y))

\* x / y for y # 0
RDiv(x, y) ==
    IF y[1] > 0 THEN Norm(x[1] * y[2], x[2] * y[1])
                ELSE Norm(-(x[1] * y[2]), x[2] * (-y[1]))

RLt(x, y) == x[1] * y[2] < y[1] * x[2]

RLe(x, y) == x[1] * y[2] <= y[1] * x[2]

RGe(x, y) == RLe(y, x)

RECURSIVE RSum(_, _)
RSum(f, S) ==
    IF S = {} THEN R(0)
    ELSE LET k == CHOOSE k \in S : TRUE IN RAdd(f[k], RSum(f, S \ {k}))

(* ------------------------------ wallets -------------------------------- *)

\* the Owner wallet and the Broker wallets; a wallet's public key is unique
\* to it, so a wallet and its key are named by the same value
Owner == 0

Brokers == 1..NumBrokers

\* a Broker wallet that only pays into the inverter
Payer == NumBrokers + 1

Wallets == {Owner, Payer} \cup Brokers

\* Wallet.funds default, which a ProposalInverter inherits
WalletDefaultFunds == 100

(* ------------------------ deployment parameters ------------------------ *)

\* Owner._default_agreement_contract_params, with buffer_period's class default
DefaultParams ==
    [min_stake |-> 5, min_epochs |-> 28, allocation_per_epoch |-> 10,
     min_horizon |-> 7, min_brokers |-> 1, max_brokers |-> 5,
     buffer_period |-> 5]

\* the **agreement_contract_params a driver passes to deploy
Overrides ==
    {[min_stake |-> 5, min_epochs |-> 2, allocation_per_epoch |-> 10,
      min_horizon |-> 2, min_brokers |-> n, max_brokers |-> n,
      buffer_period |-> 1] : n \in {1, 2}}
    \cup
    {[min_stake |-> 5, min_epochs |-> 2, allocation_per_epoch |-> 60,
      min_horizon |-> 2, min_brokers |-> 1, max_brokers |-> 1,
      buffer_period |-> 1]}

\* the initial_funds a driver passes to deploy
InitialFundsChoices == {10, 20, 30, 120}

\* the stakes a driver passes to add_broker
StakeChoices == {4, 5, 10}

\* the tokens a driver passes to pay
PayChoices == {5}

(* --------------------- the ProposalInverter's state --------------------- *)

\* the inverter, the wallets it touches and its parameters, as one record
Self ==
    [funds |-> funds, current_epoch |-> current_epoch,
     cancel_epoch |-> cancel_epoch, broker_agreements |-> broker_agreements,
     committed_brokers |-> committed_brokers, wallet |-> wallet,
     params |-> params]

BrokerAgreement(epoch_joined, initial_stake, allocated_funds, total_claimed) ==
    [epoch_joined |-> epoch_joined, initial_stake |-> initial_stake,
     allocated_funds |-> allocated_funds, total_claimed |-> total_claimed]

\* d[key] = rec, for a dict d
DictSet(d, key, rec) ==
    [k \in DOMAIN d \cup {key} |-> IF k = key THEN rec ELSE d[k]]

\* del d[key]
DictDel(d, key) == [k \in DOMAIN d \ {key} |-> d[k]]

EmptyDict == [k \in {} |-> 0]

number_of_brokers(s) == Cardinality(s.committed_brokers)

\* get_broker_claimable_funds without the division (line 173)
get_broker_claimable_funds_undivided(s) == R(s.params.allocation_per_epoch)

get_broker_claimable_funds(s) ==
    RDiv(R(s.params.allocation_per_epoch), R(number_of_brokers(s)))

get_allocated_funds(s) ==
    RSum([k \in DOMAIN s.broker_agreements |->
             s.broker_agreements[k].allocated_funds],
         DOMAIN s.broker_agreements)

\* get_horizon with the allocated funds not taken off
get_horizon_of_funds(s) ==
    RDiv(s.funds, R(s.params.allocation_per_epoch))

get_horizon(s) ==
    RDiv(RSub(s.funds, get_allocated_funds(s)),
         R(s.params.allocation_per_epoch))

(* ------------------------ ProposalInverter methods ---------------------- *)

\* add_broker with the capacity test of line 77 off by one
add_broker_over_capacity(s, broker, stake) ==
    IF broker \in DOMAIN s.broker_agreements THEN s
    ELSE IF Cardinality(s.committed_brokers) > s.params.max_brokers THEN s
    ELSE IF stake < s.params.min_stake THEN s
    ELSE [s EXCEPT
            !.wallet[broker] = RSub(@, R(stake)),
            !.funds = RAdd(@, R(stake)),
            !.broker_agreements =
                DictSet(@, broker,
                        BrokerAgreement(s.current_epoch, R(stake), R(0), R(0))),
            !.committed_brokers = @ \cup {broker}]

add_broker(s, broker, stake) ==
    IF broker \in DOMAIN s.broker_agreements THEN s
    ELSE IF Cardinality(s.committed_brokers) + 1 > s.params.max_brokers THEN s
    ELSE IF stake < s.params.min_stake THEN s
    ELSE [s EXCEPT
            !.wallet[broker] = RSub(@, R(stake)),
            !.funds = RAdd(@, R(stake)),
            !.broker_agreements =
                DictSet(@, broker,
                        BrokerAgreement(s.current_epoch, R(stake), R(0), R(0))),
            !.committed_brokers = @ \cup {broker}]

\* claim_broker_funds that leaves allocated_funds as it is (line 113)
claim_broker_funds_not_zeroed(s, broker) ==
    IF broker \notin DOMAIN s.broker_agreements THEN s
    ELSE LET claim == s.broker_agreements[broker].allocated_funds IN
         [s EXCEPT
            !.broker_agreements[broker].total_claimed = RAdd(@, claim),
            !.wallet[broker] = RAdd(@, claim),
            !.funds = RSub(@, claim)]

\* claim_broker_funds without the debit of the inverter (line 116)
claim_broker_funds_no_debit(s, broker) ==
    IF broker \notin DOMAIN s.broker_agreements THEN s
    ELSE LET claim == s.broker_agreements[broker].allocated_funds IN
         [s EXCEPT
            !.broker_agreements[broker].allocated_funds = R(0),
            !.broker_agreements[broker].total_claimed = RAdd(@, claim),
            !.wallet[broker] = RAdd(@, claim)]

claim_broker_funds(s, broker) ==
    IF broker \notin DOMAIN s.broker_agreements THEN s
    ELSE LET claim == s.broker_agreements[broker].allocated_funds IN
         [s EXCEPT
            !.broker_agreements[broker].allocated_funds = R(0),
            !.broker_agreements[broker].total_claimed = RAdd(@, claim),
            !.wallet[broker] = RAdd(@, claim),
            !.funds = RSub(@, claim)]

\* remove_broker with the vesting test of line 136 strict
remove_broker_strict(s, broker) ==
    IF broker \notin DOMAIN s.broker_agreements THEN s
    ELSE LET broker_agreement == s.broker_agreements[broker]
             stake == broker_agreement.initial_stake
             s1 == IF s.current_epoch - broker_agreement.epoch_joined
                        > s.params.min_epochs
                   THEN [s EXCEPT !.wallet[broker] = RAdd(@, stake),
                                  !.funds = RSub(@, stake)]
                   ELSE s
             s2 == claim_broker_funds(s1, broker)
         IN  [s2 EXCEPT !.broker_agreements = DictDel(@, broker),
                        !.committed_brokers = @ \ {broker}]

remove_broker(s, broker) ==
    IF broker \notin DOMAIN s.broker_agreements THEN s
    ELSE LET broker_agreement == s.broker_agreements[broker]
             stake == broker_agreement.initial_stake
             s1 == IF s.current_epoch - broker_agreement.epoch_joined
                        >= s.params.min_epochs
                   THEN [s EXCEPT !.wallet[broker] = RAdd(@, stake),
                                  !.funds = RSub(@, stake)]
                   ELSE s
             s2 == claim_broker_funds(s1, broker)
         IN  [s2 EXCEPT !.broker_agreements = DictDel(@, broker),
                        !.committed_brokers = @ \ {broker}]

\* pay without the debit of the payer (line 196)
pay_no_debit(s, broker, tokens) ==
    [s EXCEPT !.funds = RAdd(@, R(tokens))]

pay(s, broker, tokens) ==
    [s EXCEPT !.wallet[broker] = RSub(@, R(tokens)),
              !.funds = RAdd(@, R(tokens))]

\* the division of cancel and of get_broker_claimable_funds is evaluated once
\* per record of the registry: with records and no committed broker it raises
\* ZeroDivisionError before anything is assigned
DividesByZero(s) ==
    DOMAIN s.broker_agreements # {} /\ number_of_brokers(s) = 0

\* cancel with no stake given back in a record's allocated_funds
cancel_no_stake(s) ==
    IF DividesByZero(s) THEN [s |-> s, raised |-> TRUE]
    ELSE
    LET keys == DOMAIN s.broker_agreements
        total_stake ==
            RSum([k \in keys |-> s.broker_agreements[k].initial_stake], keys)
        total_allocated_funds == get_allocated_funds(s)
        share == RDiv(RSub(RSub(s.funds, total_stake), total_allocated_funds),
                      R(number_of_brokers(s)))
        s1 == [s EXCEPT !.broker_agreements =
                 [k \in keys |->
                    [s.broker_agreements[k] EXCEPT !.allocated_funds =
                        RAdd(@, share)]]]
        s2 == [s1 EXCEPT !.broker_agreements =
                 DictSet(@, Owner,
                         BrokerAgreement(s.current_epoch, R(0),
                                         RSub(s.funds, get_allocated_funds(s1)),
                                         R(0)))]
    IN  [s |-> s2, raised |-> FALSE]

cancel(s) ==
    IF DividesByZero(s) THEN [s |-> s, raised |-> TRUE]
    ELSE
    LET keys == DOMAIN s.broker_agreements
        total_stake ==
            RSum([k \in keys |-> s.broker_agreements[k].initial_stake], keys)
        total_allocated_funds == get_allocated_funds(s)
        share == RDiv(RSub(RSub(s.funds, total_stake), total_allocated_funds),
                      R(number_of_brokers(s)))
        s1 == [s EXCEPT !.broker_agreements =
                 [k \in keys |->
                    [s.broker_agreements[k] EXCEPT !.allocated_funds =
                        RAdd(@, RAdd(s.broker_agreements[k].initial_stake,
                                     share))]]]
        s2 == [s1 EXCEPT !.broker_agreements =
                 DictSet(@, Owner,
                         BrokerAgreement(s.current_epoch, R(0),
                                         RSub(s.funds, get_allocated_funds(s1)),
                                         R(0)))]
    IN  [s |-> s2, raised |-> FALSE]

\* the test of line 160: the minimum conditions are met
ConditionsMet(s) ==
    \/ number_of_brokers(s) >= s.params.min_brokers
    \/ RGe(get_horizon(s), R(s.params.min_horizon))

\* iter_epoch_step with the buffer test of line 164 not strict
iter_epoch_step_early(s) ==
    IF DividesByZero(s) THEN [s |-> s, raised |-> TRUE, cancelled |-> FALSE,
                              met |-> FALSE]
    ELSE
    LET s1 == [s EXCEPT !.broker_agreements =
                 [k \in DOMAIN s.broker_agreements |->
                    [s.broker_agreements[k] EXCEPT !.allocated_funds =
                        RAdd(@, get_broker_claimable_funds(s))]]]
        met == ConditionsMet(s1)
        s2 == IF met THEN [s1 EXCEPT !.cancel_epoch = s1.current_epoch] ELSE s1
        fire == (s2.current_epoch - s2.cancel_epoch) >= s2.params.buffer_period
        s3 == IF fire THEN cancel(s2).s ELSE s2
    IN  [s |-> [s3 EXCEPT !.current_epoch = @ + 1], raised |-> FALSE,
         cancelled |-> fire, met |-> met]

\* one pass of the loop of iter_epoch
iter_epoch_step(s) ==
    IF DividesByZero(s) THEN [s |-> s, raised |-> TRUE, cancelled |-> FALSE,
                              met |-> FALSE]
    ELSE
    LET s1 == [s EXCEPT !.broker_agreements =
                 [k \in DOMAIN s.broker_agreements |->
                    [s.broker_agreements[k] EXCEPT !.allocated_funds =
                        RAdd(@, get_broker_claimable_funds(s))]]]
        met == ConditionsMet(s1)
        s2 == IF met THEN [s1 EXCEPT !.cancel_epoch = s1.current_epoch] ELSE s1
        fire == (s2.current_epoch - s2.cancel_epoch) > s2.params.buffer_period
        s3 == IF fire THEN cancel(s2).s ELSE s2
    IN  [s |-> [s3 EXCEPT !.current_epoch = @ + 1], raised |-> FALSE,
         cancelled |-> fire, met |-> met]

\* iter_epoch(n_epochs): the state it leaves, whether it raised, the number of
\* passes that called cancel, whether the last pass run did, and the number of
\* consecutive passes, ending with the last one, whose conditions were not met
RECURSIVE iter_epoch_from(_, _, _)
iter_epoch_from(r, failed, n) ==
    IF n = 0 THEN [r EXCEPT !.failed = failed]
    ELSE LET t == iter_epoch_step(r.s) IN
         IF t.raised
         THEN [s |-> r.s, raised |-> TRUE, cancels |-> r.cancels,
               cancelled |-> r.cancelled, failed |-> failed]
         ELSE iter_epoch_from(
                 [s |-> t.s, raised |-> FALSE,
                  cancels |-> r.cancels + (IF t.cancelled THEN 1 ELSE 0),
                  cancelled |-> t.cancelled, failed |-> 0],
                 IF t.met THEN 0 ELSE failed + 1, n - 1)

iter_epoch(s, failed, n_epochs) ==
    iter_epoch_from([s |-> s, raised |-> FALSE, cancels |-> 0,
                     cancelled |-> FALSE, failed |-> 0], failed, n_epochs)

(* ----------------------------- Owner methods ---------------------------- *)

\* Owner.deploy: the ProposalInverter it returns, or None
deploy(owner_funds, initial_funds, agreement_contract_params) ==
    LET p == agreement_contract_params
        horizon == RDiv(R(initial_funds), R(p.allocation_per_epoch))
        funded == RGe(owner_funds, R(initial_funds))
    IN  IF RLt(horizon, R(p.min_horizon))
        THEN [none |-> TRUE, funds |-> R(0), owner_funds |-> owner_funds]
        ELSE [none |-> FALSE,
              funds |-> IF funded THEN R(initial_funds)
                        ELSE R(WalletDefaultFunds),
              owner_funds |-> IF funded THEN RSub(owner_funds, R(initial_funds))
                              ELSE owner_funds]

\* the claims Owner.cancel makes for the brokers of broker_pool
RECURSIVE claim_all(_, _)
claim_all(s, broker_pool) ==
    IF broker_pool = {} THEN s
    ELSE LET b == CHOOSE b \in broker_pool : TRUE IN
         claim_all(claim_broker_funds(s, b), broker_pool \ {b})

Owner_cancel(s, broker_pool) ==
    LET c == cancel(s) IN
    IF c.raised THEN c
    ELSE [s |-> claim_all(c.s, broker_pool), raised |-> FALSE]

(* ------------------------------- the calls ------------------------------ *)

\* the last call: its name and the wallet it was made for, whether it raised
\* ZeroDivisionError, the number of passes of iter_epoch that called cancel,
\* and whether its last pass did
Call(op, who, raised, cancels, cancelled) ==
    [op |-> op, who |-> who, raised |-> raised, cancels |-> cancels,
     cancelled |-> cancelled]

\* the driver makes one more call
Called == calls < MaxCalls /\ calls' = calls + 1

\* s becomes the state of the inverter and of the wallets
Becomes(s) ==
    /\ funds' = s.funds
    /\ current_epoch' = s.current_epoch
    /\ cancel_epoch' = s.cancel_epoch
    /\ broker_agreements' = s.broker_agreements
    /\ committed_brokers' = s.committed_brokers
    /\ wallet' = s.wallet

Init ==
    /\ deployed = FALSE
    /\ params = DefaultParams
    /\ funds = R(0)
    /\ current_epoch = 0
    /\ cancel_epoch = 0
    /\ broker_agreements = EmptyDict
    /\ committed_brokers = {}
    /\ wallet = [w \in Wallets |->
                    IF w = Owner THEN R(OwnerFunds)
                    ELSE IF w = Payer THEN R(PayerFunds)
                    ELSE R(BrokerFunds)]
    /\ last = Call("init", Owner, FALSE, 0, FALSE)
    /\ failed_steps = 0
    /\ calls = 0

Deploy(initial_funds, p) ==
    /\ ~deployed
    /\ Called
    /\ LET d == deploy(wallet[Owner], initial_funds, p) IN
       /\ deployed' = ~d.none
       /\ params' = IF d.none THEN params ELSE p
       /\ funds' = IF d.none THEN funds ELSE d.funds
       /\ wallet' = [wallet EXCEPT ![Owner] = d.owner_funds]
       /\ last' = Call("deploy", Owner, FALSE, 0, FALSE)
    /\ UNCHANGED <<current_epoch, cancel_epoch, broker_agreements,
                   committed_brokers, failed_steps>>

\* the driver stakes and pays only what the wallet holds
AddBroker(broker, stake) ==
    /\ deployed
    /\ Called
    /\ RGe(wallet[broker], R(stake))
    /\ last' = Call("add_broker", broker, FALSE, 0, FALSE)
    /\ Becomes(add_broker(Self, broker, stake))
    /\ UNCHANGED <<deployed, params, failed_steps>>

ClaimBrokerFunds(broker) ==
    /\ deployed
    /\ Called
    /\ last' = Call("claim_broker_funds", broker, FALSE, 0, FALSE)
    /\ Becomes(claim_broker_funds(Self, broker))
    /\ UNCHANGED <<deployed, params, failed_steps>>

RemoveBroker(broker) ==
    /\ deployed
    /\ Called
    /\ last' = Call("remove_broker", broker, FALSE, 0, FALSE)
    /\ Becomes(remove_broker(Self, broker))
    /\ UNCHANGED <<deployed, params, failed_steps>>

Pay(broker, tokens) ==
    /\ deployed
    /\ Called
    /\ RGe(wallet[broker], R(tokens))
    /\ Becomes(pay(Self, broker, tokens))
    /\ last' = Call("pay", broker, FALSE, 0, FALSE)
    /\ UNCHANGED <<deployed, params, failed_steps>>

IterEpoch(n_epochs) ==
    /\ deployed
    /\ Called
    /\ LET r == iter_epoch(Self, failed_steps, n_epochs) IN
       /\ Becomes(r.s)
       /\ failed_steps' = r.failed
       /\ last' = Call("iter_epoch", Owner, r.raised, r.cancels,
                       r.cancelled)
    /\ UNCHANGED <<deployed, params>>

Cancel ==
    /\ deployed
    /\ Called
    /\ LET c == cancel(Self) IN
       /\ Becomes(c.s)
       /\ last' = Call("cancel", Owner, c.raised, 0, FALSE)
    /\ UNCHANGED <<deployed, params, failed_steps>>

OwnerCancel(broker_pool) ==
    /\ deployed
    /\ Called
    /\ LET c == Owner_cancel(Self, broker_pool) IN
       /\ Becomes(c.s)
       /\ last' = Call("Owner.cancel", Owner, c.raised, 0, FALSE)
    /\ UNCHANGED <<deployed, params, failed_steps>>

Next ==
    \/ \E f \in InitialFundsChoices, p \in Overrides : Deploy(f, p)
    \/ \E b \in Brokers, stake \in StakeChoices : AddBroker(b, stake)
    \/ \E w \in Brokers \cup {Owner} : ClaimBrokerFunds(w)
    \/ \E b \in Brokers : RemoveBroker(b)
    \/ \E tokens \in PayChoices : Pay(Payer, tokens)
    \/ \E n \in 1..MaxNEpochs : IterEpoch(n)
    \/ Cancel
    \/ OwnerCancel(Brokers)

Spec == Init /\ [][Next]_vars

\* the forced cancel was called in the last pass of the last call
ForcedCancelFired == last.op = "iter_epoch" /\ last.cancelled

\* the driver has made its other calls, and the inverter is left with at
\* least one broker and fewer than min_brokers
OnlyIterEpoch ==
    /\ deployed
    /\ calls = MaxCalls
    /\ number_of_brokers(Self) >= 1
    /\ number_of_brokers(Self) < params.min_brokers

\* the driver calls iter_epoch() again, with nothing else in between, until the
\* forced cancel has fired
DriverAdvances ==
    /\ OnlyIterEpoch
    /\ ~ForcedCancelFired
    /\ current_epoch < MaxEpoch

AdvanceEpoch ==
    /\ DriverAdvances
    /\ LET r == iter_epoch(Self, failed_steps, 1) IN
       /\ Becomes(r.s)
       /\ failed_steps' = r.failed
       /\ last' = Call("iter_epoch", Owner, r.raised, r.cancels,
                       r.cancelled)
    /\ UNCHANGED <<deployed, params, calls>>

\* the parameters with which an inverter that has a broker can have fewer
\* than min_brokers
UnderstaffedOverrides == {p \in Overrides : p.min_brokers > 1}

LiveNext ==
    \/ \E f \in InitialFundsChoices, p \in UnderstaffedOverrides : Deploy(f, p)
    \/ \E b \in Brokers, stake \in StakeChoices : AddBroker(b, stake)
    \/ \E w \in Brokers \cup {Owner} : ClaimBrokerFunds(w)
    \/ \E b \in Brokers : RemoveBroker(b)
    \/ \E tokens \in PayChoices : Pay(Payer, tokens)
    \/ \E n \in 1..MaxNEpochs : IterEpoch(n)
    \/ Cancel
    \/ OwnerCancel(Brokers)
    \/ AdvanceEpoch

\* a step of AdvanceEpoch, told by its guard and by the epoch it leaves: where
\* the driver advances no other call is left to it, and with a committed
\* broker the pass of iter_epoch ends in line 167
EpochAdvanced == DriverAdvances /\ current_epoch' = current_epoch + 1

\* the steps of EpochAdvanced are the steps of AdvanceEpoch
EpochAdvancedIsAdvanceEpoch == [][EpochAdvanced <=> AdvanceEpoch]_vars

\* iter_epoch keeps being called for as long as the driver advances
LiveSpec == Init /\ [][LiveNext]_vars /\ WF_current_epoch(EpochAdvanced)

(* ------------------------------ the claims ------------------------------ *)

\* the funds of the inverter and of every wallet together
TotalFunds(f, w) == RAdd(f, RSum(w, Wallets))

Registered(w) == w \in DOMAIN broker_agreements

\* C1: once the inverter is deployed no call creates or destroys funds: the
\* inverter's funds plus the owner's plus every broker wallet's stay the same
\* over every call, successful or rejected
C1_Conservation ==
    [][deployed =>
          \/ UNCHANGED <<funds, wallet>>
          \/ TotalFunds(funds', wallet') = TotalFunds(funds, wallet)]_vars

\* C1's case: a broker has staked and has been paid a claim by the inverter
C1_Witness ==
    \E b \in Brokers :
        /\ Registered(b)
        /\ RLt(R(0), broker_agreements[b].total_claimed)
        /\ RLt(R(BrokerFunds), wallet[b])

\* C2: after every call the inverter holds at least what it has earmarked:
\* get_allocated_funds() <= funds
C2_AllocatedWithinFunds == deployed => RLe(get_allocated_funds(Self), funds)

\* C3: after every call the keys of broker_agreements are the committed
\* brokers
C3_RegistryMirrorsCommitted ==
    deployed => DOMAIN broker_agreements = committed_brokers

\* the state a step leaves, as the record Self is of the state it starts from
Post ==
    [funds |-> funds', current_epoch |-> current_epoch',
     cancel_epoch |-> cancel_epoch', broker_agreements |-> broker_agreements',
     committed_brokers |-> committed_brokers', wallet |-> wallet',
     params |-> params']

\* the cases in which add_broker is to fail
Rejected(broker, stake) ==
    \/ Registered(broker)
    \/ number_of_brokers(Self) + 1 > params.max_brokers
    \/ stake < params.min_stake

\* C4: add_broker changes nothing (registry, committed set, inverter funds,
\* wallets) when the broker is already registered, or admitting it would
\* exceed max_brokers, or stake < min_stake; and number_of_brokers() never
\* exceeds max_brokers
C4_AddBrokerRejects ==
    [][/\ \A b \in Brokers, stake \in StakeChoices :
            AddBroker(b, stake) /\ Rejected(b, stake) =>
                UNCHANGED <<broker_agreements, committed_brokers, funds, wallet>>
       /\ Cardinality(committed_brokers') <= params'.max_brokers]_vars

\* C4's case: add_broker was called for a broker while the inverter was full,
\* and the broker is not registered
C4_Witness ==
    /\ last.op = "add_broker"
    /\ ~Registered(last.who)
    /\ number_of_brokers(Self) = params.max_brokers
    /\ RGe(wallet[last.who], R(params.min_stake))

\* the program state a call can change
state == <<funds, current_epoch, cancel_epoch, broker_agreements,
           committed_brokers, wallet>>

\* C5: claim_broker_funds of a registered wallet with allocated_funds = c
\* credits the wallet by c, debits the inverter by c, raises total_claimed by
\* c and zeroes allocated_funds; the same claim repeated at once changes
\* nothing; for an unregistered wallet it changes nothing
C5_ClaimPaysAllocated ==
    [][\A w \in Brokers \cup {Owner} : ClaimBrokerFunds(w) =>
          /\ Registered(w) =>
                LET c == broker_agreements[w].allocated_funds IN
                /\ wallet'[w] = RAdd(wallet[w], c)
                /\ funds' = RSub(funds, c)
                /\ broker_agreements'[w].total_claimed =
                       RAdd(broker_agreements[w].total_claimed, c)
                /\ broker_agreements'[w].allocated_funds = R(0)
          /\ ~Registered(w) => UNCHANGED state
          /\ last.op = "claim_broker_funds" /\ last.who = w => UNCHANGED state
      ]_vars

\* C5's case: a registered broker has just claimed a positive amount
C5_Witness ==
    /\ last.op = "claim_broker_funds"
    /\ last.who \in Brokers
    /\ Registered(last.who)
    /\ RLt(R(0), broker_agreements[last.who].total_claimed)
    /\ broker_agreements[last.who].allocated_funds = R(0)

\* C6: claim_broker_funds leaves the unallocated funds, funds -
\* get_allocated_funds(), and so get_horizon(), as they were, and changes no
\* other wallet's record
C6_ClaimKeepsUnallocated ==
    [][\A w \in Brokers \cup {Owner} : ClaimBrokerFunds(w) =>
          /\ RSub(funds', get_allocated_funds(Post)) =
                RSub(funds, get_allocated_funds(Self))
          /\ get_horizon(Post) = get_horizon(Self)
          /\ DOMAIN broker_agreements' = DOMAIN broker_agreements
          /\ \A k \in DOMAIN broker_agreements \ {w} :
                broker_agreements'[k] = broker_agreements[k]
      ]_vars

\* C6's case: a broker has just claimed a positive amount while another record
\* holds allocated funds
C6_Witness ==
    /\ last.op = "claim_broker_funds"
    /\ Registered(last.who)
    /\ RLt(R(0), broker_agreements[last.who].total_claimed)
    /\ \E k \in DOMAIN broker_agreements \ {last.who} :
          RLt(R(0), broker_agreements[k].allocated_funds)

OnePass ==
    /\ last'.op = "iter_epoch"
    /\ ~last'.raised
    /\ current_epoch' = current_epoch + 1

\* each committed broker's allocated_funds grew by allocation_per_epoch / k
AccruedEvenly ==
    \A b \in committed_brokers :
        broker_agreements'[b].allocated_funds =
            RAdd(broker_agreements[b].allocated_funds,
                 get_broker_claimable_funds(Self))

\* C8 as stated: with k >= 1 registered brokers one pass of iter_epoch raises
\* each one's allocated_funds by exactly allocation_per_epoch / k, and so the
\* total allocated by exactly allocation_per_epoch
C8_Original ==
    [][OnePass /\ number_of_brokers(Self) >= 1 =>
          /\ AccruedEvenly
          /\ get_allocated_funds(Post) =
                RAdd(get_allocated_funds(Self), R(params.allocation_per_epoch))
      ]_vars

\* C8, amended: with k >= 1 registered brokers a pass of iter_epoch that does
\* not call cancel raises each registered broker's allocated_funds by exactly
\* allocation_per_epoch / k, and so the registered brokers' total by exactly
\* allocation_per_epoch
C8_AccrualFairness ==
    [][OnePass /\ number_of_brokers(Self) >= 1 /\ ~last'.cancelled =>
          /\ AccruedEvenly
          /\ RSum([b \in committed_brokers |->
                      broker_agreements'[b].allocated_funds], committed_brokers)
             = RAdd(RSum([b \in committed_brokers |->
                             broker_agreements[b].allocated_funds],
                         committed_brokers),
                    R(params.allocation_per_epoch))
      ]_vars

\* C8's case: two brokers were registered through a first pass that called no
\* cancel, and each holds half the epoch's allocation
C8_Witness ==
    /\ last.op = "iter_epoch"
    /\ ~last.cancelled
    /\ current_epoch = 1
    /\ Cardinality(committed_brokers) = 2
    /\ \A b \in committed_brokers :
          broker_agreements[b].allocated_funds =
              RDiv(R(params.allocation_per_epoch), R(2))

\* C9: when a call of iter_epoch has triggered the forced cancel, all the
\* inverter's funds are earmarked when it returns:
\* get_allocated_funds() == funds
C9_ForcedCancelEarmarksAll ==
    last.op = "iter_epoch" /\ last.cancels > 0 /\ ~last.raised =>
        get_allocated_funds(Self) = funds

TotalStake ==
    RSum([k \in DOMAIN broker_agreements |->
             broker_agreements[k].initial_stake], DOMAIN broker_agreements)

\* the equal share cancel gives each committed broker of what the inverter
\* holds beyond the stakes and the allocations
ResidualShare ==
    RDiv(RSub(RSub(funds, TotalStake), get_allocated_funds(Self)),
         R(number_of_brokers(Self)))

\* C11: where cancel has not run yet and at least one broker is registered,
\* cancel followed by claim_broker_funds for every registered broker pays out
\* the inverter's funds exactly: funds and get_allocated_funds() end at 0,
\* and each broker has received its allocated_funds, its own initial_stake
\* and an equal share of funds - total stake - total allocated
C11_CancelDistribution ==
    [][(/\ last'.op = "Owner.cancel"
        /\ ~Registered(Owner)
        /\ number_of_brokers(Self) >= 1) =>
          /\ ~last'.raised
          /\ funds' = R(0)
          /\ get_allocated_funds(Post) = R(0)
          /\ \A b \in committed_brokers :
                wallet'[b] =
                    RAdd(wallet[b],
                         RAdd(broker_agreements[b].allocated_funds,
                              RAdd(broker_agreements[b].initial_stake,
                                   ResidualShare)))
          /\ \A w \in Wallets \ committed_brokers : wallet'[w] = wallet[w]
      ]_vars

\* C11's case: Owner.cancel has paid out two brokers of different stakes that
\* had accrued over an epoch, and the inverter is empty
C11_Witness ==
    /\ last.op = "Owner.cancel"
    /\ ~last.raised
    /\ current_epoch >= 1
    /\ funds = R(0)
    /\ number_of_brokers(Self) = 2
    /\ \E a, b \in committed_brokers :
          /\ broker_agreements[a].initial_stake #
                 broker_agreements[b].initial_stake
          /\ RLt(R(0), broker_agreements[a].total_claimed)
          /\ RLt(R(BrokerFunds), wallet[a])
          /\ RLt(R(BrokerFunds), wallet[b])

\* an explicit cancel that completed, or a call of iter_epoch of one pass whose
\* pass called cancel
CancelRan ==
    \/ last'.op = "cancel" /\ ~last'.raised
    \/ OnePass /\ last'.cancelled

\* C12: after cancel, explicit or forced, the owner's record holds
\* funds - total allocated when no broker is registered at the call, and 0
\* when at least one broker is
C12_OwnerEarmark ==
    [][CancelRan =>
          /\ Owner \in DOMAIN broker_agreements'
          /\ broker_agreements'[Owner].initial_stake = R(0)
          /\ broker_agreements'[Owner].allocated_funds =
                IF number_of_brokers(Self) = 0
                THEN RSub(funds, get_allocated_funds(Self))
                ELSE R(0)
      ]_vars

\* C13: cancel moves no money: it leaves the inverter's funds, every wallet,
\* current_epoch, cancel_epoch, the committed set and every record's
\* initial_stake, epoch_joined and total_claimed as they were; only
\* allocated_funds entries change
C13_CancelMovesNoMoney ==
    [][last'.op = "cancel" =>
          /\ UNCHANGED <<funds, wallet, current_epoch, cancel_epoch,
                         committed_brokers>>
          /\ \A k \in DOMAIN broker_agreements :
                /\ k \in DOMAIN broker_agreements'
                /\ broker_agreements'[k].initial_stake =
                       broker_agreements[k].initial_stake
                /\ broker_agreements'[k].epoch_joined =
                       broker_agreements[k].epoch_joined
                /\ broker_agreements'[k].total_claimed =
                       broker_agreements[k].total_claimed
      ]_vars

\* C14: deploy returns no inverter, and leaves the owner's balance as it was,
\* when initial_funds / allocation_per_epoch < min_horizon; every inverter it
\* returns starts with no broker and with get_horizon() >= min_horizon,
\* whatever the owner's balance and the parameters
C14_DeploymentGate ==
    [][\A f \in InitialFundsChoices, p \in Overrides : Deploy(f, p) =>
          /\ RLt(RDiv(R(f), R(p.allocation_per_epoch)), R(p.min_horizon)) =>
                ~deployed' /\ wallet' = wallet
          /\ deployed' =>
                /\ number_of_brokers(Post) = 0
                /\ DOMAIN broker_agreements' = {}
                /\ RGe(get_horizon(Post), R(params'.min_horizon))
      ]_vars

\* C15: a deploy that passes the horizon test with initial_funds above the
\* owner's balance still makes the inverter, with funds 0 and the owner's
\* balance as it was; with a balance that suffices the inverter's funds are
\* initial_funds and the owner is debited initial_funds
C15_DeployFunding ==
    [][\A f \in InitialFundsChoices, p \in Overrides :
          Deploy(f, p)
          /\ RGe(RDiv(R(f), R(p.allocation_per_epoch)), R(p.min_horizon)) =>
             /\ deployed'
             /\ IF RGe(wallet[Owner], R(f))
                THEN /\ funds' = R(f)
                     /\ wallet'[Owner] = RSub(wallet[Owner], R(f))
                ELSE /\ funds' = R(0)
                     /\ wallet'[Owner] = wallet[Owner]
      ]_vars

\* C16: no sequence of add_broker, claim_broker_funds, remove_broker, pay,
\* iter_epoch and cancel ends in a division by zero
C16_NoDivisionByZero == ~last.raised

\* C17: a call of iter_epoch or of cancel that fails with an error leaves the
\* inverter's funds, current_epoch, cancel_epoch, registry and committed set
\* as they were before the call
C17_AtomicOnFailure ==
    [][last'.raised =>
          UNCHANGED <<funds, current_epoch, cancel_epoch, broker_agreements,
                      committed_brokers>>]_vars

\* C18: every record's allocated_funds is non-negative in every reachable
\* state
C18_AllocatedNonNegative ==
    \A k \in DOMAIN broker_agreements :
        RLe(R(0), broker_agreements[k].allocated_funds)

\* C19: once cancel has run, running cancel again or advancing epochs changes
\* no record's allocated_funds
C19_CancelIsTerminal ==
    [][Registered(Owner) /\ last'.op \in {"cancel", "iter_epoch"} =>
          /\ DOMAIN broker_agreements' = DOMAIN broker_agreements
          /\ \A k \in DOMAIN broker_agreements :
                broker_agreements'[k].allocated_funds =
                    broker_agreements[k].allocated_funds
      ]_vars

\* C20: remove_broker of a broker whose stake cancel has earmarked in its
\* allocated_funds pays the broker that allocation only, and no stake again
C20_StakeReturnedOnce ==
    [][\A b \in Brokers :
          (/\ last'.op = "remove_broker" /\ last'.who = b
           /\ Registered(b) /\ Registered(Owner)
           /\ broker_agreements[Owner].epoch_joined >
                  broker_agreements[b].epoch_joined) =>
             wallet'[b] =
                 RAdd(wallet[b], broker_agreements[b].allocated_funds)
      ]_vars

\* once the driver has only iter_epoch left to call, it stays so, and the
\* number of brokers stays what it is
OnlyIterEpochStays ==
    [][OnlyIterEpoch =>
          /\ deployed' /\ calls' = MaxCalls
          /\ committed_brokers' = committed_brokers
          /\ params' = params]_vars

\* C21: with at least one broker registered, number_of_brokers() below
\* min_brokers and nothing called but iter_epoch, the forced cancel fires
\* after finitely many epochs: no behaviour stays for ever in states where
\* only iter_epoch is called and the forced cancel has not fired
C21_ForcedCancelLiveness == []<>(OnlyIterEpoch => ForcedCancelFired)

\* C21's case: the forced cancel has fired at an epoch that only the calls of
\* iter_epoch with nothing in between can reach, for an inverter left with a
\* broker and fewer than min_brokers
C21_Witness ==
    /\ OnlyIterEpoch
    /\ ForcedCancelFired
    /\ ~last.raised
    /\ current_epoch > MaxCalls * MaxNEpochs
    /\ current_epoch < MaxEpoch
====
